---- MODULE Spec2Model ----
(***************************************************************************)
(* A model of env_run.py (erun): the Placeholder / Preset enumerations,    *)
(* guess_preset, the CommandSettings validators, Settings, run_command and *)
(* main.                                                                   *)
(*                                                                         *)
(* Python strings are sequences of one-character strings, so that the      *)
(* substring test of `arg in Placeholder.ANY_ARGS` and shlex.quote can be  *)
(* computed as the interpreter computes them.  An optional value is a      *)
(* sequence of length 0 (absent / None) or 1 (present).                    *)
(***************************************************************************)
EXTENDS Integers, Sequences, FiniteSets

VARIABLES
    any_args,      \* the str value of the enum member Placeholder.ANY_ARGS
    fs,            \* markers of the directories from the cwd up to the root
    guessed,       \* result of a guess_preset() call (SpecGuess)
    cs_raw,        \* raw keyword arguments of one CommandSettings(...) call
    cs,            \* the CommandSettings being constructed (SpecResolve)
    pc,            \* position of main()
    raw_settings,  \* what read_raw_settings() returned
    settings,      \* the Settings object
    argv,          \* sys.argv[1:]
    final_args,    \* the vector handed to subprocess.run
    spawned,       \* subprocess.run was called
    exit_code      \* value given to sys.exit / status of the process

vars == <<any_args, fs, guessed, cs_raw, cs, pc, raw_settings, settings,
          argv, final_args, spawned, exit_code>>

-----------------------------------------------------------------------------
(* Bounds of the model *)

MaxDepth == 4       \* directories on the chain cwd .. root (SpecGuess)
MaxTemplate == 2    \* tokens of a raw args list (SpecResolve)
MaxPrefix == 1      \* tokens of a raw prefix list (SpecResolve)
MaxRawArgs == 2     \* trailing command-line arguments after COMMAND (Spec)

None == <<>>
Some(v) == <<v>>
Opt(S) == {None} \cup {Some(v) : v \in S}

SeqsUpTo(S, n) == UNION {[1..k -> S] : k \in 0..n}

-----------------------------------------------------------------------------
(* Strings used by the program and by the inputs *)

S_cmd == <<"{", "c", "m", "d", "}">>
S_args == <<"{", "a", "r", "g", "s", "}">>
S_shell_args == <<"{", "s", "h", "e", "l", "l", "_", "a", "r", "g", "s", "}">>

\* repr() of a two-element set of str, as str() of the set prints it
SetRepr(a, b) == <<"{", "'">> \o a \o <<"'", ",", " ", "'">> \o b \o <<"'", "}">>

\* Placeholder.ANY_ARGS = {args, shell_args} is a member of a str-mixin Enum:
\* its value is str() of the set, whose element order follows the string
\* hashes of the process (randomised per run).
AnyArgsValues == {SetRepr(S_args, S_shell_args), SetRepr(S_shell_args, S_args)}

L_args == <<"a", "r", "g", "s">>
L_empty == <<>>
L_v == <<"-", "v">>
L_sudo == <<"s", "u", "d", "o">>
L_test == <<"t", "e", "s", "t">>
L_lint == <<"l", "i", "n", "t">>
L_dry_run == <<"-", "-", "d", "r", "y", "-", "r", "u", "n">>
L_x == <<"x">>
L_a_b == <<"a", " ", "b">>
L_quote == <<"'">>

IsSubstring(a, b) ==
    \E i \in 0..(Len(b) - Len(a)) : SubSeq(b, i + 1, i + Len(a)) = a

-----------------------------------------------------------------------------
(* class Preset, class Placeholder *)

Preset == {"compose", "native", "vagrant", "vssh"}

\* the values for which Placeholder(v) succeeds: one per member of the enum
PlaceholderValues(any) == {S_cmd, S_args, S_shell_args, any}

\* a token of a validated args list: ph is TRUE for a Placeholder member,
\* FALSE for a plain str; s is its str content
Tok(ph, s) == [ph |-> ph, s |-> s]

-----------------------------------------------------------------------------
(* guess_preset *)

DirKinds == {[vagrant |-> FALSE, vssh_cfg |-> FALSE],
             [vagrant |-> TRUE, vssh_cfg |-> FALSE],
             [vagrant |-> TRUE, vssh_cfg |-> TRUE]}

Chains(n) == UNION {[1..k -> DirKinds] : k \in 1..n}

RECURSIVE guess_from_swapped(_, _)
guess_from_swapped(chain, i) ==
    IF i > Len(chain) THEN "native"
    ELSE IF chain[i].vagrant THEN "vagrant"
    ELSE IF chain[i].vssh_cfg THEN "vssh"
    ELSE guess_from_swapped(chain, i + 1)

\* lines 79-84: the loop over (current_dir, *current_dir.parents), from
\* directory i on
RECURSIVE guess_from(_, _)
guess_from(chain, i) ==
    IF i > Len(chain) THEN "native"
    ELSE IF chain[i].vssh_cfg THEN "vssh"
    ELSE IF chain[i].vagrant THEN "vagrant"
    ELSE guess_from(chain, i + 1)

guess_preset(chain) == guess_from(chain, 1)

-----------------------------------------------------------------------------
(* class CommandSettings: the validators, in field order preset, prefix, args *)

\* the `preset` field: an explicit value must name a member of Preset,
\* an absent one is filled by default_factory=guess_preset; the result is the
\* entry values["preset"], absent when validation of the field failed
preset_field(raw_preset, chain) ==
    IF raw_preset = None THEN Some(guess_preset(chain))
    ELSE IF raw_preset[1] \in Preset THEN raw_preset
    ELSE None

default_prefix_truthy(v, values_preset) ==
    IF v # None /\ v[1] # <<>> THEN v[1]
    ELSE IF values_preset = Some("vagrant") THEN <<<<"v", "a", "g", "r", "a", "n", "t">>, <<"s", "s", "h">>, <<"-", "-">>>>
    ELSE IF values_preset = Some("vssh") THEN <<<<"v", "s", "s", "h">>>>
    ELSE <<>>

default_prefix(v, values_preset) ==
    IF v # None THEN v[1]
    ELSE IF values_preset = Some("vagrant") THEN <<<<"v", "a", "g", "r", "a", "n", "t">>, <<"s", "s", "h">>, <<"-", "-">>>>
    ELSE IF values_preset = Some("vssh") THEN <<<<"v", "s", "s", "h">>>>
    ELSE <<>>

\* Placeholder(v) returns the member whose value equals v, and raises
\* ValueError (the string is kept) when there is none
clean_args(v, any) ==
    IF v \in PlaceholderValues(any) THEN Tok(TRUE, v) ELSE Tok(FALSE, v)

\* `arg in Placeholder.ANY_ARGS`: ANY_ARGS is a str, so this is str.__contains__
in_ANY_ARGS(arg, any) == IsSubstring(arg.s, any)

default_placeholders(v, values_preset, any) ==
    LET w == IF v = None THEN <<Tok(TRUE, S_cmd)>> ELSE v[1]
    IN  IF \E i \in 1..Len(w) : in_ANY_ARGS(w[i], any) THEN w
        ELSE IF values_preset \in {Some("vagrant"), Some("vssh")}
             THEN Append(w, Tok(TRUE, S_shell_args))
        ELSE Append(w, Tok(TRUE, S_args))

\* CommandSettings(**raw): ok is FALSE when a ValidationError is raised
CommandSettings(raw, chain, any) ==
    LET p == preset_field(raw.preset, chain)
        cleaned == IF raw.args = None THEN None
                   ELSE Some([i \in 1..Len(raw.args[1]) |-> clean_args(raw.args[1][i], any)])
    IN  [ok |-> p # None,
         preset |-> p,
         prefix |-> default_prefix(raw.prefix, p),
         args |-> default_placeholders(cleaned, p, any)]

RawProfile(presets, prefixes, templates) ==
    [preset : presets, prefix : prefixes, args : templates]

EmptyRaw == [preset |-> None, prefix |-> None, args |-> None]

-----------------------------------------------------------------------------
(* class Settings *)

LogLevel == {"CRITICAL", "FATAL", "ERROR", "WARN", "WARNING", "INFO", "DEBUG"}

\* the profiles constructed for the fields `default` and `commands`; an absent
\* `default` is built from {} (BaseSettings validates defaults)
default_field(raw) ==
    IF raw.default = None THEN EmptyRaw ELSE raw.default[1]

Settings_default_only(raw, chain, any) ==
    LET d == CommandSettings(default_field(raw), chain, any)
        c == [k \in DOMAIN raw.commands |-> CommandSettings(raw.commands[k], chain, any)]
        lg == IF raw.log = None THEN Some("INFO")
              ELSE IF raw.log[1] \in LogLevel THEN raw.log
              ELSE None
    IN  [ok |-> d.ok /\ lg # None,
         default |-> d, commands |-> c, log |-> lg]

\* Settings(**raw): ok is FALSE when a ValidationError is raised
Settings(raw, chain, any) ==
    LET d == CommandSettings(default_field(raw), chain, any)
        c == [k \in DOMAIN raw.commands |-> CommandSettings(raw.commands[k], chain, any)]
        lg == IF raw.log = None THEN Some("INFO")
              ELSE IF raw.log[1] \in LogLevel THEN raw.log
              ELSE None
    IN  [ok |-> d.ok /\ (\A k \in DOMAIN c : c[k].ok) /\ lg # None,
         default |-> d, commands |-> c, log |-> lg]

-----------------------------------------------------------------------------
(* shlex.quote *)

\* the characters matched by [\w@%+=:,./-] under re.ASCII
SafeChars ==
    {"a", "b", "c", "d", "e", "f", "g", "h", "i", "j", "k", "l", "m",
     "n", "o", "p", "q", "r", "s", "t", "u", "v", "w", "x", "y", "z",
     "A", "B", "C", "D", "E", "F", "G", "H", "I", "J", "K", "L", "M",
     "N", "O", "P", "Q", "R", "S", "T", "U", "V", "W", "X", "Y", "Z",
     "0", "1", "2", "3", "4", "5", "6", "7", "8", "9", "_",
     "@", "%", "+", "=", ":", ",", ".", "/", "-"}

\* s.replace("'", "'\"'\"'")
RECURSIVE escape_quotes(_)
escape_quotes(s) ==
    IF s = <<>> THEN <<>>
    ELSE (IF Head(s) = "'" THEN <<"'", "\"", "'", "\"", "'">> ELSE <<Head(s)>>)
         \o escape_quotes(Tail(s))

quote(s) ==
    IF s = <<>> THEN <<"'", "'">>
    ELSE IF \A i \in 1..Len(s) : s[i] \in SafeChars THEN s
    ELSE <<"'">> \o escape_quotes(s) \o <<"'">>

-----------------------------------------------------------------------------
(* run_command *)

select_default(s, command) == s.default

\* lines 180-183
select(s, command) ==
    IF command \in DOMAIN s.commands THEN s.commands[command] ELSE s.default

\* lines 184-193: the loop over command_settings.args, from token i on
RECURSIVE expand_from(_, _, _, _, _)
expand_from(acc, tmpl, i, command, args) ==
    IF i > Len(tmpl) THEN acc
    ELSE IF tmpl[i].s = S_cmd THEN
        expand_from(Append(acc, command), tmpl, i + 1, command, args)
    ELSE IF tmpl[i].s = S_args THEN
        expand_from(acc \o args, tmpl, i + 1, command, args)
    ELSE IF tmpl[i].s = S_shell_args THEN
        expand_from(acc \o [k \in 1..Len(args) |-> quote(args[k])], tmpl, i + 1, command, args)
    ELSE expand_from(Append(acc, tmpl[i].s), tmpl, i + 1, command, args)

build_final_args_no_prefix(s, a) ==
    LET command == Head(a)
        args == Tail(a)
        command_settings == select(s, command)
    IN  expand_from(<<>>, command_settings.args, 1, command, args)

build_final_args(s, a) ==
    LET command == Head(a)
        args == Tail(a)
        command_settings == select(s, command)
    IN  expand_from(command_settings.prefix, command_settings.args, 1, command, args)

-----------------------------------------------------------------------------
(* Inputs *)

Tokens == {S_cmd, S_args, S_shell_args, L_args, L_empty, L_v,
           SetRepr(S_args, S_shell_args)}

RawPresets == Opt(Preset \cup {"docker"})

RawProfiles ==
    RawProfile(RawPresets, Opt(SeqsUpTo({L_sudo}, MaxPrefix)),
               Opt(SeqsUpTo(Tokens, MaxTemplate)))

\* the profiles of the configuration files given to main
MainTemplates == {None, Some(<<L_v, S_shell_args, S_cmd, S_args>>), Some(<<L_args>>)}

MainProfiles ==
    RawProfile({None, Some("native"), Some("vagrant"), Some("docker")},
               {None, Some(<<L_sudo>>)}, MainTemplates)

RawSettings ==
    [default : Opt(MainProfiles),
     commands : {<<>>} \cup {[k \in {L_test} |-> p] : p \in MainProfiles},
     log : {None, Some("DEBUG"), Some("verbose")}]

Commands == {L_test, L_lint, L_dry_run}
ArgWords == {L_x, L_a_b, L_quote}
Argvs == {<<c>> \o ra : c \in Commands, ra \in SeqsUpTo(ArgWords, MaxRawArgs)}

ReturnCodes == {0, 1}

NoRawSettings == [default |-> None, commands |-> <<>>, log |-> None]

-----------------------------------------------------------------------------
(* main *)

Idle ==
    /\ guessed = None
    /\ cs_raw = EmptyRaw
    /\ cs = None
    /\ pc = "idle"
    /\ raw_settings = NoRawSettings
    /\ settings = None
    /\ argv = <<>>
    /\ final_args = <<>>
    /\ spawned = FALSE
    /\ exit_code = -1

Init ==
    /\ any_args \in AnyArgsValues
    /\ fs \in Chains(1)
    /\ guessed = None
    /\ cs_raw = EmptyRaw
    /\ cs = None
    /\ pc = "start"
    /\ raw_settings = NoRawSettings
    /\ settings = None
    /\ argv = <<>>
    /\ final_args = <<>>
    /\ spawned = FALSE
    /\ exit_code = -1

\* line 218: raw_setings = read_raw_settings()
ReadRawSettings ==
    /\ pc = "start"
    /\ \E r \in RawSettings : raw_settings' = r
    /\ pc' = "read"
    /\ UNCHANGED <<any_args, fs, guessed, cs_raw, cs, settings, argv,
                   final_args, spawned, exit_code>>

\* line 220: settings = Settings(**raw_setings), and line 227
BuildSettings ==
    /\ pc = "read"
    /\ Settings(raw_settings, fs, any_args).ok
    /\ settings' = Some(Settings(raw_settings, fs, any_args))
    /\ pc' = "settings"
    /\ UNCHANGED <<any_args, fs, guessed, cs_raw, cs, raw_settings, argv,
                   final_args, spawned, exit_code>>

\* line 220 raising ValidationError: main has no handler, the interpreter
\* prints the traceback and exits with status 1
SettingsError ==
    /\ pc = "read"
    /\ ~Settings(raw_settings, fs, any_args).ok
    /\ pc' = "crashed"
    /\ exit_code' = 1
    /\ UNCHANGED <<any_args, fs, guessed, cs_raw, cs, raw_settings, settings,
                   argv, final_args, spawned>>

\* lines 229-232: no COMMAND
Usage ==
    /\ pc = "settings"
    /\ argv' = <<>>
    /\ pc' = "exit"
    /\ exit_code' = 1
    /\ UNCHANGED <<any_args, fs, guessed, cs_raw, cs, raw_settings, settings,
                   final_args, spawned>>

\* lines 229, 233 and 179-194: run_command up to the call of subprocess.run
RunCommand ==
    /\ pc = "settings"
    /\ \E a \in Argvs :
        /\ argv' = a
        /\ final_args' = build_final_args(settings[1], a)
    /\ pc' = "run"
    /\ UNCHANGED <<any_args, fs, guessed, cs_raw, cs, raw_settings, settings,
                   spawned, exit_code>>

\* lines 195-196 and 234: the child runs and its status becomes the exit code
ChildExit ==
    /\ pc = "run"
    /\ final_args # <<>>
    /\ spawned' = TRUE
    /\ \E rc \in ReturnCodes : exit_code' = rc
    /\ pc' = "exit"
    /\ UNCHANGED <<any_args, fs, guessed, cs_raw, cs, raw_settings, settings,
                   argv, final_args>>

\* line 195 raising (no such executable, or an empty vector): no child runs
ExecError ==
    /\ pc = "run"
    /\ pc' = "crashed"
    /\ exit_code' = 1
    /\ UNCHANGED <<any_args, fs, guessed, cs_raw, cs, raw_settings, settings,
                   argv, final_args, spawned>>

Next ==
    \/ ReadRawSettings
    \/ BuildSettings
    \/ SettingsError
    \/ Usage
    \/ RunCommand
    \/ ChildExit
    \/ ExecError

Spec == Init /\ [][Next]_vars

-----------------------------------------------------------------------------
(* One call of guess_preset() on every chain of directories *)

InitGuess ==
    /\ any_args \in AnyArgsValues
    /\ fs \in Chains(MaxDepth)
    /\ Idle

GuessPreset ==
    /\ guessed = None
    /\ guessed' = Some(guess_preset(fs))
    /\ UNCHANGED <<any_args, fs, cs_raw, cs, pc, raw_settings, settings,
                   argv, final_args, spawned, exit_code>>

NextGuess == GuessPreset

SpecGuess == InitGuess /\ [][NextGuess]_vars

-----------------------------------------------------------------------------
(* One construction of CommandSettings from every raw profile *)

InitResolve ==
    /\ any_args \in AnyArgsValues
    /\ fs \in Chains(1)
    /\ guessed = None
    /\ cs_raw \in RawProfiles
    /\ cs = None
    /\ pc = "idle"
    /\ raw_settings = NoRawSettings
    /\ settings = None
    /\ argv = <<>>
    /\ final_args = <<>>
    /\ spawned = FALSE
    /\ exit_code = -1

Construct ==
    /\ cs = None
    /\ cs' = Some(CommandSettings(cs_raw, fs, any_args))
    /\ UNCHANGED <<any_args, fs, guessed, cs_raw, pc, raw_settings, settings,
                   argv, final_args, spawned, exit_code>>

NextResolve == Construct

SpecResolve == InitResolve /\ [][NextResolve]_vars

-----------------------------------------------------------------------------
(* Properties of guess_preset (SpecGuess) *)

VagrantDirs == {i \in 1..Len(fs) : fs[i].vagrant}
Nearest(S) == CHOOSE i \in S : \A j \in S : i <= j

\* C9: guess_preset returns the answer of the nearest directory of the chain
\* that contains .vagrant (vssh if it also holds .vagrant/vssh.cfg, vagrant
\* otherwise), native exactly when no directory contains .vagrant, and never
\* compose.
C9_NearestMarkerWins ==
    guessed # None =>
        /\ guessed[1] # "compose"
        /\ (guessed[1] = "native") <=> (VagrantDirs = {})
        /\ VagrantDirs # {} =>
              guessed[1] = (IF fs[Nearest(VagrantDirs)].vssh_cfg THEN "vssh" ELSE "vagrant")

C9_Witness ==
    /\ guessed = Some("vssh")
    /\ Len(fs) >= 3
    /\ ~fs[1].vagrant
    /\ fs[2].vssh_cfg
    /\ fs[3].vagrant /\ ~fs[3].vssh_cfg

-----------------------------------------------------------------------------
(* Properties of CommandSettings (SpecResolve) *)

AnyArgsForms == {S_args, S_shell_args}
Texts(tmpl) == [i \in 1..Len(tmpl) |-> tmpl[i].s]
Resolved == cs # None /\ cs[1].ok

\* C1: the args of every resolved profile hold exactly one token equal to
\* {args} or {shell_args}.
C1_ExactlyOneAnyArgs ==
    Resolved =>
        Cardinality({i \in 1..Len(cs[1].args) : cs[1].args[i].s \in AnyArgsForms}) = 1

\* the args the resolution rule of the claim C4 yields
C4_Expected ==
    LET base == IF cs_raw.args = None THEN <<S_cmd>> ELSE cs_raw.args[1]
    IN  IF \E i \in 1..Len(base) : base[i] \in AnyArgsForms THEN base
        ELSE IF cs[1].preset[1] \in {"vagrant", "vssh"} THEN Append(base, S_shell_args)
        ELSE Append(base, S_args)

\* C4: an absent args list becomes [{cmd}]; a list with no token equal to
\* {args} or {shell_args} gets one placeholder appended ({shell_args} for
\* vagrant and vssh, {args} otherwise); a list that holds one is unchanged.
C4_ArgsDefaulting ==
    Resolved => Texts(cs[1].args) = C4_Expected

\* C5: an explicit prefix (the empty list included) is kept verbatim; an
\* absent one becomes [vagrant, ssh, --] for vagrant, [vssh] for vssh and []
\* for every other preset, the preset being the resolved one.
C5_PrefixDefaulting ==
    Resolved =>
        /\ cs_raw.prefix # None => cs[1].prefix = cs_raw.prefix[1]
        /\ cs_raw.prefix = None =>
              /\ cs[1].preset[1] = "vagrant" =>
                    cs[1].prefix = <<<<"v", "a", "g", "r", "a", "n", "t">>, <<"s", "s", "h">>, <<"-", "-">>>>
              /\ cs[1].preset[1] = "vssh" => cs[1].prefix = <<<<"v", "s", "s", "h">>>>
              /\ cs[1].preset[1] \in {"native", "compose"} => cs[1].prefix = <<>>

C5_Witness ==
    /\ Resolved
    /\ cs_raw.prefix = Some(<<>>)
    /\ cs_raw.preset = None
    /\ cs[1].preset = Some("vagrant")
    /\ cs[1].prefix = <<>>

\* C10: a raw args token becomes a Placeholder if and only if it equals
\* {cmd}, {args} or {shell_args}; every token keeps its text.
C10_PlaceholderGrammar ==
    (Resolved /\ cs_raw.args # None) =>
        \A i \in 1..Len(cs_raw.args[1]) :
            /\ cs[1].args[i].s = cs_raw.args[1][i]
            /\ cs[1].args[i].ph <=> (cs_raw.args[1][i] \in {S_cmd, S_args, S_shell_args})

-----------------------------------------------------------------------------
(* Properties of main and run_command (Spec) *)

Dispatched == pc = "run"
RawArgs == Tail(argv)
Selected ==
    IF Head(argv) \in DOMAIN settings[1].commands
    THEN settings[1].commands[Head(argv)]
    ELSE settings[1].default

RECURSIVE Carries(_, _, _, _)
Carries(final, j, raw, k) ==
    IF k > Len(raw) THEN TRUE
    ELSE IF j > Len(final) THEN FALSE
    ELSE IF final[j] \in {raw[k], quote(raw[k])} THEN Carries(final, j + 1, raw, k + 1)
    ELSE Carries(final, j + 1, raw, k)

\* C2: the final argument vector holds, for each runtime argument and in
\* the original order, a token equal to it or to its shell-quoted form.
C2_ArgsNeverDropped ==
    Dispatched => Carries(final_args, 1, RawArgs, 1)

\* number of tokens a template token expands to
Width(tok) == IF tok.s \in AnyArgsForms THEN Len(RawArgs) ELSE 1

RECURSIVE Offset(_, _)
Offset(tmpl, i) == IF i <= 1 THEN 0 ELSE Offset(tmpl, i - 1) + Width(tmpl[i - 1])

\* the k-th token of the expansion of a template token
Piece(tok, k) ==
    IF tok.s = S_cmd THEN Head(argv)
    ELSE IF tok.s = S_args THEN RawArgs[k]
    ELSE IF tok.s = S_shell_args THEN quote(RawArgs[k])
    ELSE tok.s

\* C3: the final vector is the prefix of the profile followed, in template
\* order, by the expansion of each token: {cmd} is the command, {args} the
\* runtime arguments as given, {shell_args} the runtime arguments each
\* shell-quoted, a literal itself; nothing else is added, removed or moved.
C3_DispatchExpansion ==
    Dispatched =>
        LET q == Selected
            n == Len(q.prefix)
        IN  /\ Len(final_args) = n + Offset(q.args, Len(q.args) + 1)
            /\ \A j \in 1..n : final_args[j] = q.prefix[j]
            /\ \A i \in 1..Len(q.args) : \A k \in 1..Width(q.args[i]) :
                  final_args[n + Offset(q.args, i) + k] = Piece(q.args[i], k)

C3_Witness ==
    /\ Dispatched
    /\ Texts(Selected.args) = <<L_v, S_shell_args, S_cmd, S_args>>
    /\ Selected.prefix = <<L_sudo>>
    /\ argv = <<L_lint, L_a_b, L_x>>
    /\ final_args = <<L_sudo, L_v, <<"'", "a", " ", "b", "'">>, L_x, L_lint, L_a_b, L_x>>

\* C6: run_command expands the profile stored under the command name when
\* settings.commands has that key and settings.default otherwise, every
\* field coming from that one profile.
C6_CommandSelection ==
    Dispatched =>
        /\ Head(argv) \in DOMAIN settings[1].commands =>
              final_args = settings[1].commands[Head(argv)].prefix \o
                  expand_from(<<>>, settings[1].commands[Head(argv)].args, 1, Head(argv), RawArgs)
        /\ Head(argv) \notin DOMAIN settings[1].commands =>
              final_args = settings[1].default.prefix \o
                  expand_from(<<>>, settings[1].default.args, 1, Head(argv), RawArgs)

C6_Witness ==
    /\ Dispatched
    /\ Head(argv) = L_test
    /\ L_test \in DOMAIN settings[1].commands
    /\ settings[1].commands[L_test].prefix = <<L_sudo>>
    /\ settings[1].default.prefix = <<>>
    /\ Texts(settings[1].commands[L_test].args) = <<L_args>>
    /\ Texts(settings[1].default.args) = <<S_cmd, S_args>>
    /\ final_args = <<L_sudo, L_args>>

InvalidProfile(r) == r.preset # None /\ r.preset[1] \notin Preset
InvalidConfig ==
    \/ raw_settings.default # None /\ InvalidProfile(raw_settings.default[1])
    \/ \E k \in DOMAIN raw_settings.commands : InvalidProfile(raw_settings.commands[k])
    \/ raw_settings.log # None /\ raw_settings.log[1] \notin LogLevel

\* C7: when the raw configuration holds an explicit preset outside the
\* enumeration (in the default profile or in any override) or a log value
\* outside the level set, no Settings is built and used, and
\* subprocess.run is never reached.
C7_ConfigErrorsAbort ==
    (pc # "start" /\ InvalidConfig) =>
        /\ settings = None
        /\ pc \in {"read", "crashed"}
        /\ final_args = <<>>
        /\ ~spawned

C7_Witness ==
    /\ pc = "crashed"
    /\ raw_settings.default = None
    /\ raw_settings.log = None
    /\ L_test \in DOMAIN raw_settings.commands
    /\ raw_settings.commands[L_test].preset = Some("docker")
    /\ ~spawned

DryRun == argv # <<>> /\ Head(argv) = L_dry_run

\* C8: with --dry-run before COMMAND no child process is spawned and the
\* exit code is 0.
C8_DryRunSpawnsNothing ==
    DryRun =>
        /\ ~spawned
        /\ pc \in {"exit", "crashed"} => exit_code = 0

====
